---- MODULE Spec2Model ----
(***************************************************************************)
(* Content acquisition fallback chain and RAG context assembly of the      *)
(* YDA4 backend (app/backend).  The ingest handlers (process_youtube,      *)
(* process_audio, process_podcast) are modelled step by step, one action   *)
(* per collaborator call; chat_with_ollama is modelled as one action.      *)
(*                                                                         *)
(* A Python str is a sequence of atoms (pieces of text); "" is << >>.      *)
(* None is the one-atom sequence None, which no text contains.             *)
(***************************************************************************)
EXTENDS Integers, Sequences, FiniteSets, TLC

VARIABLES
    pc,             \* position of the ingest request being handled
    req,            \* the request: kind, url, authenticated user record
    stages,         \* acquisition strategies started so far, with outcome
    errs,           \* str(exception) of each failed download configuration
    captions,       \* caption entries fetched by the captions stage, or None
    transcription,  \* local `transcription` of the handler
    title,          \* local video_title / full_title / file.filename
    audio_file,     \* local audio_file / temp_path / file_path, or None
    info,           \* what PodFetcher has resolved about the episode
    calls,          \* collaborators invoked while handling this request
    created,        \* files this request has written to disk
    disk,           \* files present on disk
    tmpn,           \* number of NamedTemporaryFile names handed out
    sources,        \* rows of table `sources`
    srcn,           \* number of Source rows ever created
    chunks,         \* rows of table `document_chunks`
    resp,           \* response of the finished request
    cpc,            \* position of the chat_with_ollama call
    chat,           \* arguments, locals and result of the chat_with_ollama call
    sop             \* the store operation being answered: arguments and result

handlerVars == <<pc, req, stages, errs, captions, transcription, title, audio_file,
                 info, calls, created, disk, tmpn, resp>>
ingestVars == <<pc, req, stages, errs, captions, transcription, title, audio_file,
                info, calls, created, disk, tmpn, sources, srcn, chunks, resp, sop>>
chatVars == <<cpc, chat>>
vars == <<pc, req, stages, errs, captions, transcription, title, audio_file,
          info, calls, created, disk, tmpn, sources, srcn, chunks, resp, cpc, chat, sop>>

(***************************************************************************)
(* Bounds of the model.                                                    *)
(***************************************************************************)
MaxEntries == 2      \* caption entries of one track
MaxUploads == 2      \* temporary upload files ever created
MaxResults == 3      \* rows the vector backend returns to one search
MaxSources == 2      \* Source rows ever created
MaxK == 2            \* largest k given to the search endpoint
MaxTexts == 2        \* texts given to one call of add_texts
MaxRows == 3         \* chunk rows in the table when add_texts is called on its own
MaxFeedEntries == 2  \* entries of the podcast's feed
MaxChunks == 3       \* chunks the recursive splitter returns for one text
MaxTasks == 2        \* requests in flight that call transcribe_audio
MaxCalls == 3        \* calls of transcribe_audio in one process

(***************************************************************************)
(* Python values.                                                          *)
(***************************************************************************)
None == <<"<None>">>

Truthy(s) == s # None /\ s # << >>

\* sep.join(parts)
RECURSIVE Join(_, _)
Join(sep, parts) ==
    IF parts = << >> THEN << >>
    ELSE IF Len(parts) = 1 THEN parts[1]
    ELSE parts[1] \o sep \o Join(sep, Tail(parts))

SeqsUpTo(S, n) == UNION {[1..m -> S] : m \in 0..n}

(***************************************************************************)
(* Exceptions.  str() of a Starlette HTTPException is "<status>: <detail>".*)
(***************************************************************************)
StatusText(status) ==
    CASE status = 400 -> "400: "
      [] status = 404 -> "404: "
      [] status = 408 -> "408: "
      [] status = 503 -> "503: "
      [] OTHER -> "500: "

HTTPException(status, detail) == [type |-> "HTTPException", status |-> status, detail |-> detail]

PyError(type, msg) == [type |-> type, status |-> 0, detail |-> msg]

Str(e) == IF e.type = "HTTPException" THEN <<StatusText(e.status)>> \o e.detail ELSE e.detail

\* user['token'] on a record lacking the key
KeyErrorToken == PyError("KeyError", <<"'token'">>)

(***************************************************************************)
(* Authentication: the record get_current_user hands to every handler.     *)
(***************************************************************************)
Users == {"alice", "bob"}

GetCurrentUser(uid) == [id |-> uid, email |-> "email", payload |-> "claims"]

HasKey(d, k) == k \in DOMAIN d

(***************************************************************************)
(* Video acquisition.                                                      *)
(***************************************************************************)
\* URLs the handlers are called with: one whose video id the captions stage can
\* extract, one it cannot (a /shorts/ link), one podcast episode.
YoutubeUrls == {<<"youtube.com/watch?v=", "vid1">>, <<"youtube.com/shorts/", "vid2">>}

ExtractYoutubeVideoId(url) ==
    IF url[1] \in {"youtube.com/watch?v=", "youtu.be/"} THEN <<url[2]>> ELSE None

\* info['id'] as the downloader reports it
InfoId(url) == url[2]

Mp3File(url) == <<InfoId(url), ".mp3">>

\* the media file '%(id)s.%(ext)s' the downloader writes before audio extraction
MediaFile(url) == <<InfoId(url), ".webm">>

StageOrder == <<"captions", "primary", "permissive", "video_floor", "max_permissive">>

DownloadStages == {"primary", "permissive", "video_floor", "max_permissive"}

StageIndex(name) == CHOOSE i \in 1..Len(StageOrder) : StageOrder[i] = name

DownloadErrors == {"HTTP Error 403", "format not available"}

EntryTexts == {<< >>, <<"hello">>, <<"world">>}

CaptionTracks == {[kind |-> "manual", lang |-> "en"], [kind |-> "generated", lang |-> "en"],
                  [kind |-> "manual", lang |-> "fr"], [kind |-> "generated", lang |-> "fr"],
                  [kind |-> "generated", lang |-> "xx"]}

ListedLanguages == {"en", "fr"}

NoTrack == [kind |-> "none", lang |-> "none"]

\* transcript_list.find_manually_created_transcript(['en']), else
\* find_generated_transcript(['en']), else find_transcript([... languages ...]),
\* which itself prefers a manual track; NoTrack stands for NoTranscriptFound
FindTranscript(tracks) ==
    IF [kind |-> "manual", lang |-> "en"] \in tracks THEN [kind |-> "manual", lang |-> "en"]
    ELSE IF [kind |-> "generated", lang |-> "en"] \in tracks THEN [kind |-> "generated", lang |-> "en"]
    ELSE IF \E t \in tracks : t.lang \in ListedLanguages /\ t.kind = "manual"
         THEN CHOOSE t \in tracks : t.lang \in ListedLanguages /\ t.kind = "manual"
    ELSE IF \E t \in tracks : t.lang \in ListedLanguages
         THEN CHOOSE t \in tracks : t.lang \in ListedLanguages
    ELSE NoTrack

TranscriptSource(t) ==
    IF t = [kind |-> "manual", lang |-> "en"] THEN <<"youtube_manual_transcript">>
    ELSE IF t = [kind |-> "generated", lang |-> "en"] THEN <<"youtube_auto_transcript">>
    ELSE <<"youtube_transcript_", t.lang>>

\* " ".join([entry['text'] for entry in transcript_data])
FullText(entries) == Join(<<" ">>, entries)

\* the composite detail of download_youtube_audio's final raise
CompositeDetailDropsStage(e) ==
    <<"Failed to download YouTube video after all attempts. Primary error: ", e[1],
      ". Fallback error: ", e[2], ". Final fallback error: ", e[4]>>

CompositeDetail(e) ==
    <<"Failed to download YouTube video after all attempts. Primary error: ", e[1],
      ". Fallback error: ", e[2], ". Video fallback error: ", e[3],
      ". Final fallback error: ", e[4]>>

(***************************************************************************)
(* Podcast acquisition.                                                    *)
(***************************************************************************)
PodcastUrls == {<<"podcasts.apple.com/", "episode1">>}

\* os.path.join(output_dir, safe_title + ext) of _save_transcript_string and
\* _download_file: both derive the name from the episode title alone
PodFile(filetype) == <<"downloads/", "Episode One", IF filetype = "transcript" THEN ".txt" ELSE ".mp3">>

\* entries of a feed: whether the title contains the episode title, whether the
\* entry has a podcast_transcript link, whether it has an audio enclosure
FeedEntry(match, transcript, audio) == [match |-> match, transcript |-> transcript, audio |-> audio]

FeedEntries == {FeedEntry(FALSE, FALSE, TRUE), FeedEntry(TRUE, TRUE, TRUE), FeedEntry(TRUE, TRUE, FALSE),
                FeedEntry(TRUE, FALSE, TRUE), FeedEntry(TRUE, FALSE, FALSE)}

NoEntry == FeedEntry(FALSE, FALSE, FALSE)

\* an audio enclosure wins over a transcript link
DownloadTypeAudioFirst(hasTranscript, hasAudio) ==
    IF hasAudio THEN "audio" ELSE IF hasTranscript THEN "transcript" ELSE "none"

\* what the matched feed entry yields: a transcript link wins over an audio enclosure
DownloadType(hasTranscript, hasAudio) ==
    IF hasTranscript THEN "transcript" ELSE IF hasAudio THEN "audio" ELSE "none"

\* _get_download_url_from_rss, lines 520-533: the entries in feed order; an entry
\* whose title matches and that has neither link is passed over
RECURSIVE GetDownloadUrlFromRss(_)
GetDownloadUrlFromRss(entries) ==
    IF entries = << >> THEN [type |-> "none", entry |-> NoEntry]
    ELSE LET entry == Head(entries)
             type == IF entry.match THEN DownloadType(entry.transcript, entry.audio) ELSE "none"
         IN  IF type # "none" THEN [type |-> type, entry |-> entry]
             ELSE GetDownloadUrlFromRss(Tail(entries))

FullTitle(podcast_name, episode_title) ==
    IF Truthy(podcast_name) /\ Truthy(episode_title) THEN podcast_name \o <<": ">> \o episode_title
    ELSE IF Truthy(episode_title) THEN episode_title
    ELSE IF Truthy(podcast_name) THEN podcast_name
    ELSE <<"Unknown Podcast">>

(***************************************************************************)
(* Temporary files of uploads.                                             *)
(***************************************************************************)
TempFile(n) == <<"/tmp/tmp", ToString(n)>>

\* the finally block of the three handlers:
\* if audio_file and os.path.exists(audio_file): os.remove(audio_file)
Finally(d, path) == IF path # None /\ path \in d THEN d \ {path} ELSE d

(***************************************************************************)
(* Stores.                                                                 *)
(***************************************************************************)
SourceType(kind) == IF kind = "audio" THEN "audio" ELSE kind

\* the `source` argument the three handlers give store_transcript_in_vector_db
MetadataSource(kind) == IF kind = "audio" THEN "audio_upload" ELSE kind

\* chunk.strip() of a chunk of text: leading and trailing whitespace removed
Whitespace == {" ", "\n"}

RECURSIVE ChunkStrip(_)
ChunkStrip(chunk) ==
    IF chunk = << >> THEN chunk
    ELSE IF Head(chunk) \in Whitespace THEN ChunkStrip(Tail(chunk))
    ELSE IF chunk[Len(chunk)] \in Whitespace THEN ChunkStrip(SubSeq(chunk, 1, Len(chunk) - 1))
    ELSE chunk

\* every chunk of the splitter is returned
KeepChunksUnfiltered(cs) == cs

\* [chunk for chunk in chunks if chunk.strip()], lines 74 and 87
KeepChunks(cs) == SelectSeq(cs, LAMBDA chunk : ChunkStrip(chunk) # << >>)

\* text_splitter.split_text as the handlers use it: every atom of the transcript
\* is one chunk of the splitter, blank chunks are dropped
SplitText(text) == KeepChunks([i \in 1..Len(text) |-> <<text[i]>>])

\* get_user_vector_db: the adapter of one user
GetUserVectorDbShared(user_id) == [user_id |-> "alice"]

GetUserVectorDb(user_id) == [user_id |-> user_id]

\* an optional list argument: None, or a list
NoList == [given |-> FALSE, list |-> << >>]

List(l) == [given |-> TRUE, list |-> l]

\* truth value of an optional list: None and [] are both false
ListTruthy(m) == m.given /\ m.list # << >>

\* the dict {}
EmptyDict == [key \in {} |-> << >>]

\* d.get(key), None when the key is absent
DictGet(d, key) == IF key \in DOMAIN d THEN d[key] ELSE None

\* store_transcript_in_vector_db, lines 541-550: enumerate(chunks) counts from 0;
\* i is the position of the chunk, from 1
MetadataChunkIndex(i) == i - 1

Metadatas(texts, source_id, source, url, user_id) ==
    [i \in 1..Len(texts) |->
        [source |-> source, url |-> url, chunk_index |-> MetadataChunkIndex(i),
         user_id |-> user_id, source_id |-> source_id]]

\* add_texts, line 63: if metadata and len(metadata) != len(texts): raise ValueError
AddTextsRaises(texts, metadata) == ListTruthy(metadata) /\ Len(metadata.list) # Len(texts)

\* add_texts, line 80: "user_id": self.user_id
ChunkOwnerAnonymous(db) == "anonymous"

ChunkOwner(db) == db.user_id

\* add_texts, line 85: "chunk_index": i of enumerate(zip(texts, embeddings))
RowChunkIndexFromOne(i) == i

RowChunkIndex(i) == i - 1

\* add_texts, lines 66-90: the rows of the one batch insert; none for no texts
AddTextsRows(db, texts, source_id, metadata) ==
    {[user_id |-> ChunkOwner(db), source_id |-> source_id, content |-> texts[i],
      chunk_index |-> RowChunkIndex(i),
      metadata |-> IF ListTruthy(metadata) THEN metadata.list[i] ELSE EmptyDict] :
        i \in 1..Len(texts)}

\* store_transcript_in_vector_db followed by SupabaseVectorDB.add_texts, as the
\* handlers call it: the adapter and the metadata are of the same user
ChunkRows(text, source_id, source, url, user_id) ==
    LET texts == SplitText(text)
    IN  AddTextsRows(GetUserVectorDb(user_id), texts, source_id,
                     List(Metadatas(texts, source_id, source, url, user_id)))

\* get_source_count: rows of the source that belong to the adapter's user
GetSourceCount(cs, db, source_id) ==
    Cardinality({c \in cs : c.source_id = source_id /\ c.user_id = db.user_id})

(***************************************************************************)
(* The relational store behind the Supabase client: tables `sources` and   *)
(* `document_chunks` and function match_document_chunks.                   *)
(***************************************************************************)
\* id of the n-th Source row ever created: generated, never used again
SourceId(n) == <<"source", ToString(n)>>

\* (user_id, url) is unique in `sources`: the insert of a second row is rejected
UniqueViolation(rows, user_id, url) == \E r \in rows : r.user_id = user_id /\ r.url = url

DuplicateKeyError == <<"duplicate key value violates unique constraint">>

\* deleting Source rows deletes the chunks that refer to them
CascadeDelete(cs, deleted) == {c \in cs : c.source_id \notin {r.id : r \in deleted}}

\* sequences without repeats of exactly n elements of S
Rankings(S, n) == {f \in [1..n -> S] : \A i, j \in 1..n : i # j => f[i] # f[j]}

\* match_document_chunks(query_embedding, match_count, filter_user_id): the
\* match_count rows of the user most similar to the query, most similar first;
\* the query decides which ranking it is.  A negative count is rejected.
MatchDocumentChunks(cs, match_count, filter_user_id) ==
    LET mine == {c \in cs : c.user_id = filter_user_id}
        n == IF match_count < Cardinality(mine) THEN match_count ELSE Cardinality(mine)
    IN  IF match_count < 0 THEN {}
        ELSE {[i \in 1..n |-> [content |-> f[i].content, metadata |-> f[i].metadata,
                                similarity |-> 100 - i, user_id |-> f[i].user_id]] :
                 f \in Rankings(mine, n)}

\* lines 613-626 of process_youtube (680-693 of process_audio, 761-774 of
\* process_podcast): the Source row is inserted, its id is taken from the answer,
\* and the chunks of the transcript are stored under it; the insert of the
\* chunks is one batch that is stored whole or raises
StoreStatements(rows, cs, n, user_id, ttl, url, kind, text, chunksOk) ==
    LET id == SourceId(n + 1)
        row == [id |-> id, user_id |-> user_id, title |-> ttl, url |-> url,
                type |-> SourceType(kind)]
    IN  IF UniqueViolation(rows, user_id, url)
        THEN [error |-> "duplicate", sources |-> rows, srcn |-> n, chunks |-> cs, source_id |-> None]
        ELSE IF SplitText(text) # << >> /\ ~chunksOk
        THEN [error |-> "chunks", sources |-> rows \cup {row}, srcn |-> n + 1, chunks |-> cs,
              source_id |-> id]
        ELSE [error |-> "none", sources |-> rows \cup {row}, srcn |-> n + 1,
              chunks |-> cs \cup ChunkRows(text, id, MetadataSource(kind), url, user_id),
              source_id |-> id]

\* the exception a failed store statement raises
StoreError(error) ==
    IF error = "duplicate" THEN PyError("APIError", DuplicateKeyError)
    ELSE PyError("APIError", <<"could not insert the chunks">>)

SummaryTimeout ==
    HTTPException(408, <<"Summary generation timed out. The content might be too long.">>)

\* no request is waiting for the event loop
NoNext == [kind |-> "none", url |-> None, uid |-> "nobody"]

\* the request was not received while another one was being handled
NoOverlap == [user |-> "nobody", touched |-> {}]

NoReq == [kind |-> "none", url |-> None, user |-> [id |-> "nobody"], endpoint |-> "none",
          next |-> NoNext, overlap |-> NoOverlap]

NoInfo == [download_type |-> "none", podcast_name |-> None, episode_title |-> None,
           matched |-> NoEntry]

NoCaptions == [found |-> FALSE, entries |-> << >>, track |-> NoTrack]

NoResp == [status |-> 0, detail |-> << >>, title |-> None, transcription |-> None]

Response(status, detail, t, tr) == [status |-> status, detail |-> detail, title |-> t, transcription |-> tr]

\* except Exception as e: raise HTTPException(status_code=500, detail=str(e))
ErrorResponse(e) == Response(500, Str(e), None, None)

(***************************************************************************)
(* Initial state: the process has started, nothing has been requested.     *)
(***************************************************************************)
NoChat == [model_name |-> "none"]

NoOp == [op |-> "none"]

Init ==
    /\ pc = "idle"
    /\ req = NoReq
    /\ stages = << >>
    /\ errs = << >>
    /\ captions = NoCaptions
    /\ transcription = None
    /\ title = <<"Unknown Title">>
    /\ audio_file = None
    /\ info = NoInfo
    /\ calls = {}
    /\ created = {}
    /\ disk = {}
    /\ tmpn = 0
    /\ sources = {}
    /\ srcn = 0
    /\ chunks = {}
    /\ resp = NoResp
    /\ cpc = "idle"
    /\ chat = NoChat
    /\ sop = NoOp

\* get_youtube_transcript, lines 58-107: no video id, a failing list_transcripts,
\* no track found and a failing fetch() all give None (NoCaptions)
YoutubeTranscriptResult(url, listed, listing, fetched) ==
    LET track == IF ExtractYoutubeVideoId(url) = None \/ ~listed
                 THEN NoTrack ELSE FindTranscript(listing)
    IN  IF track = NoTrack \/ fetched[1] = "raises" THEN NoCaptions
        ELSE [found |-> TRUE, entries |-> fetched[2], track |-> track]

\* a handler is entered with fresh locals; endpoint is the route the request
\* came by: the handler's own, or "url" for /process-url.  A request that has
\* been waiting for the event loop is the one handled next; it remembers whose
\* request was being handled when it was received and the files that one wrote
EnterFrom(endpoint, kind, url, uid) ==
    /\ pc \in {"idle", "done"}
    /\ req.next \in {NoNext, [kind |-> kind, url |-> url, uid |-> uid]}
    /\ req' = [kind |-> kind, url |-> url, user |-> GetCurrentUser(uid), endpoint |-> endpoint,
               next |-> NoNext,
               overlap |-> IF req.next = NoNext THEN NoOverlap
                           ELSE [user |-> req.user.id, touched |-> created]]
    /\ stages' = << >>
    /\ errs' = << >>
    /\ captions' = NoCaptions
    /\ transcription' = None
    /\ audio_file' = None
    /\ info' = NoInfo
    /\ calls' = {}
    /\ created' = {}

Enter(kind, url, uid) == EnterFrom(kind, kind, url, uid)

\* the handler's `except Exception as e` and `finally`, with the files `left`
\* that the failing step wrote
Fail(e, left) ==
    /\ resp' = ErrorResponse(e)
    /\ created' = created \cup left
    /\ disk' = Finally(disk \cup left, audio_file)
    /\ pc' = "done"

(***************************************************************************)
(* process_youtube                                                         *)
(***************************************************************************)
\* line 603: if not transcription
NeedsAudioAlways(tr) == TRUE

NeedsAudio(tr) == ~Truthy(tr)

ProcessYoutubeFrom(endpoint, url, uid) ==
    /\ EnterFrom(endpoint, "youtube", url, uid)
    /\ title' = <<"Unknown Title">>
    /\ IF Truthy(url)
       THEN pc' = "captions" /\ resp' = NoResp
       ELSE pc' = "done" /\ resp' = Response(400, <<"YouTube URL is required">>, None, None)
    /\ UNCHANGED <<disk, tmpn, sources, srcn, chunks, cpc, chat, sop>>

ProcessYoutube(url, uid) == ProcessYoutubeFrom("youtube", url, uid)

\* TranscriptFetcher.get_youtube_transcript and lines 588-603 of process_youtube
GetYoutubeTranscript ==
    /\ pc = "captions"
    /\ calls' = calls \cup {"captions"}
    /\ \E listed \in BOOLEAN, listing \in SUBSET CaptionTracks,
          fetched \in {<<"raises">>} \cup {<<"ok", es>> : es \in SeqsUpTo(EntryTexts, MaxEntries)},
          titleOk \in BOOLEAN :
        LET result == YoutubeTranscriptResult(req.url, listed, listing, fetched)
            tr == IF result.found THEN FullText(result.entries) ELSE None
        IN  /\ captions' = result
            /\ transcription' = tr
            /\ title' = IF result.found
                        THEN (IF titleOk THEN <<"Video Title">> ELSE <<"YouTube Video">>)
                        ELSE title
            /\ stages' = Append(stages, [name |-> "captions", ok |-> Truthy(tr)])
            /\ pc' = IF NeedsAudio(tr) THEN "primary" ELSE "store"
    /\ UNCHANGED <<req, errs, audio_file, info, created, disk, tmpn, sources, srcn, chunks, resp, cpc, chat, sop>>

\* one download configuration of download_youtube_audio (lines 161-283); a
\* failing configuration may leave the media file it had fetched
DownloadStage ==
    /\ pc \in DownloadStages
    /\ calls' = calls \cup {"downloader"}
    /\ \E ok \in BOOLEAN, reason \in DownloadErrors, leaves \in BOOLEAN :
        /\ stages' = Append(stages, [name |-> pc, ok |-> ok])
        /\ IF ok
           THEN /\ audio_file' = Mp3File(req.url)
                /\ title' = <<"Video Title">>
                /\ disk' = disk \cup {Mp3File(req.url)}
                /\ created' = created \cup {Mp3File(req.url)}
                /\ pc' = "stt"
                /\ UNCHANGED <<errs, resp>>
           ELSE LET left == IF leaves THEN {MediaFile(req.url)} ELSE {}
                IN  /\ errs' = Append(errs, reason)
                    /\ UNCHANGED <<audio_file, title>>
                    /\ IF pc = "max_permissive"
                       THEN Fail(HTTPException(400, CompositeDetail(errs')), left)
                       ELSE /\ pc' = StageOrder[StageIndex(pc) + 1]
                            /\ disk' = disk \cup left
                            /\ created' = created \cup left
                            /\ UNCHANGED resp
    /\ UNCHANGED <<req, captions, transcription, info, tmpn, sources, srcn, chunks, cpc, chat, sop>>

\* what transcribe_audio raises when model.transcribe raises (lines 292-294)
TranscribeError == HTTPException(400, <<"Failed to transcribe audio: ", "decode error">>)

\* a failed transcription of a video's audio sends the handler to the next
\* download configuration
TranscribeAudioRetrying ==
    /\ pc = "stt"
    /\ \E ok \in BOOLEAN, text \in {<< >>, <<"spoken", " ", "words">>} :
        LET last == IF stages = << >> THEN "none" ELSE stages[Len(stages)].name
        IN  IF ok
            THEN /\ calls' = calls \cup {"stt"}
                 /\ transcription' = text
                 /\ pc' = "store"
                 /\ UNCHANGED <<resp, created, disk>>
            ELSE /\ calls' = calls \cup {"stt", "stt_raised"}
                 /\ UNCHANGED transcription
                 /\ IF last \in DownloadStages \ {"max_permissive"}
                    THEN /\ pc' = StageOrder[StageIndex(last) + 1]
                         /\ UNCHANGED <<resp, created, disk>>
                    ELSE Fail(TranscribeError, {})
    /\ UNCHANGED <<req, stages, errs, captions, title, audio_file, info, tmpn, sources, srcn, chunks, cpc, chat, sop>>

\* transcribe_audio (lines 285-294) as called by the three handlers; calls
\* remembers with "stt_raised" that the transcription raised
TranscribeAudio ==
    /\ pc = "stt"
    /\ \E ok \in BOOLEAN, text \in {<< >>, <<"spoken", " ", "words">>} :
        IF ok
        THEN /\ calls' = calls \cup {"stt"}
             /\ transcription' = text
             /\ pc' = "store"
             /\ UNCHANGED <<resp, created, disk>>
        ELSE /\ calls' = calls \cup {"stt", "stt_raised"}
             /\ Fail(TranscribeError, {})
             /\ UNCHANGED transcription
    /\ UNCHANGED <<req, stages, errs, captions, title, audio_file, info, tmpn, sources, srcn, chunks, cpc, chat, sop>>

\* lines 611-648 of process_youtube, 678-714 of process_audio and 759-797 of
\* process_podcast: create the Source row, store the chunks, summarise, return
StoreAndSummarize ==
    /\ pc = "store"
    /\ IF ~HasKey(req.user, "token")
       THEN /\ Fail(KeyErrorToken, {})
            /\ UNCHANGED <<sources, srcn, chunks, calls>>
       ELSE \E chunksOk \in BOOLEAN, summaryOk \in BOOLEAN :
            LET st == StoreStatements(sources, chunks, srcn, req.user.id, title, req.url,
                                      req.kind, transcription, chunksOk)
            IN  /\ calls' = calls \cup {"sources_insert"}
                /\ sources' = st.sources
                /\ srcn' = st.srcn
                /\ chunks' = st.chunks
                /\ IF st.error # "none"
                   THEN Fail(StoreError(st.error), {})
                   ELSE IF summaryOk
                        THEN /\ resp' = Response(200, << >>, title, transcription)
                             /\ disk' = Finally(disk, audio_file)
                             /\ pc' = "done"
                             /\ UNCHANGED created
                        ELSE Fail(SummaryTimeout, {})
    /\ UNCHANGED <<req, stages, errs, captions, transcription, title, audio_file, info, tmpn, cpc, chat, sop>>

(***************************************************************************)
(* process_audio                                                           *)
(***************************************************************************)
ProcessAudio(uid) ==
    /\ tmpn < MaxUploads
    /\ Enter("audio", <<"upload.mp3">>, uid)
    /\ title' = <<"upload.mp3">>
    /\ pc' = "upload"
    /\ resp' = NoResp
    /\ UNCHANGED <<disk, tmpn, sources, srcn, chunks, cpc, chat, sop>>

\* lines 667-673: the upload is written to a NamedTemporaryFile(delete=False);
\* temp_path is assigned after the read and the write, so a failure of either
\* leaves the handler without the name of the file it created
SaveUpload ==
    /\ pc = "upload"
    /\ tmpn' = tmpn + 1
    /\ \E written \in BOOLEAN :
        IF written
        THEN /\ audio_file' = TempFile(tmpn')
             /\ disk' = disk \cup {TempFile(tmpn')}
             /\ created' = created \cup {TempFile(tmpn')}
             /\ pc' = "stt"
             /\ UNCHANGED resp
        ELSE /\ Fail(PyError("OSError", <<"No space left on device">>), {TempFile(tmpn')})
             /\ UNCHANGED audio_file
    /\ UNCHANGED <<req, stages, errs, captions, transcription, title, info, calls, sources, srcn, chunks, cpc, chat, sop>>

(***************************************************************************)
(* process_podcast and PodFetcher.fetch                                    *)
(***************************************************************************)
ProcessPodcastFrom(endpoint, url, uid) ==
    /\ EnterFrom(endpoint, "podcast", url, uid)
    /\ title' = <<"Unknown Podcast">>
    /\ IF Truthy(url)
       THEN pc' = "scrape" /\ resp' = NoResp
       ELSE pc' = "done" /\ resp' = Response(400, <<"Podcast URL is required">>, None, None)
    /\ UNCHANGED <<disk, tmpn, sources, srcn, chunks, cpc, chat, sop>>

ProcessPodcast(url, uid) == ProcessPodcastFrom("podcast", url, uid)

\* fetch, lines 154-170: the feed path follows unless the scrape returned a text
\* and the text was saved; `except Exception` treats a raising scrape alike
FallsBackToFeedOnMiss(outcome, saved) == outcome = "empty"

FallsBackToFeed(outcome, saved) == ~(outcome = "text" /\ saved)

\* str(e) of what _podscripts_fetch_transcript raises (lines 237, 257, 269, 281, 290)
ScrapeErrors == {<<"Episode not found on podscripts.co.">>, <<"Transcript text was empty.">>}

\* fetch, lines 152-171: _podscripts_fetch_transcript, then _save_transcript_string,
\* which returns None when open or write fails; a failed write leaves the file;
\* the exception of a raising scrape is printed (line 170) and dropped
PodScrape ==
    /\ pc = "scrape"
    /\ calls' = calls \cup {"scraper"}
    /\ \E outcome \in {"text", "empty", "raises"}, saved \in BOOLEAN, leaves \in BOOLEAN,
          e \in ScrapeErrors :
        LET scraped == outcome = "text"
            ok == scraped /\ saved
            left == IF scraped /\ (saved \/ leaves) THEN {PodFile("transcript")} ELSE {}
        IN  /\ stages' = Append(stages, [name |-> "scrape", ok |-> ok, outcome |-> outcome,
                                          saved |-> scraped /\ saved,
                                          reason |-> IF outcome = "raises" THEN e ELSE << >>])
            /\ disk' = disk \cup left
            /\ created' = created \cup left
            /\ IF FallsBackToFeed(outcome, saved)
               THEN /\ pc' = "feed"
                    /\ UNCHANGED <<info, audio_file>>
               ELSE /\ info' = [download_type |-> "transcript", podcast_name |-> <<"Podcast">>,
                                episode_title |-> <<"Episode One">>, matched |-> NoEntry]
                    /\ audio_file' = PodFile("transcript")
                    /\ pc' = "pod_read"
    /\ UNCHANGED <<req, errs, captions, transcription, title, tmpn, sources, srcn, chunks, resp, cpc, chat, sop>>

\* fetch, lines 174-179, with _get_episode_info and _get_download_url_from_rss:
\* the title and the feed url are resolved (None when they cannot be), the feed
\* is fetched (requests.get and raise_for_status are not guarded) and searched
PodFeed ==
    /\ pc = "feed"
    /\ calls' = calls \cup {"feed"}
    /\ \E resolved \in BOOLEAN, fetched \in BOOLEAN, entries \in SeqsUpTo(FeedEntries, MaxFeedEntries) :
        LET found == GetDownloadUrlFromRss(entries)
        IN  IF resolved /\ ~fetched
            THEN /\ stages' = Append(stages, [name |-> "feed", ok |-> FALSE])
                 /\ Fail(PyError("HTTPError", <<"404 Client Error: Not Found for url">>), {})
                 /\ UNCHANGED info
            ELSE IF ~resolved \/ found.type = "none"
            THEN /\ stages' = Append(stages, [name |-> "feed", ok |-> FALSE])
                 /\ Fail(PyError("ValueError", <<"Could not retrieve episode information.">>), {})
                 /\ UNCHANGED info
            ELSE /\ stages' = stages
                 /\ info' = [download_type |-> found.type, podcast_name |-> <<"Podcast">>,
                             episode_title |-> <<"Episode One">>, matched |-> found.entry]
                 /\ pc' = "pod_download"
                 /\ UNCHANGED <<resp, created, disk>>
    /\ UNCHANGED <<req, errs, captions, transcription, title, audio_file, tmpn, sources, srcn, chunks, cpc, chat, sop>>

\* fetch, lines 181-187, with _download_file: requests.get, then the body is
\* streamed into open(filepath, "wb"); a RequestException returns None
PodDownload ==
    /\ pc = "pod_download"
    /\ calls' = calls \cup {"http_download"}
    /\ \E outcome \in {"ok", "refused", "broken_stream"} :
        LET file == PodFile(info.download_type)
        IN  /\ stages' = Append(stages, [name |-> "feed", ok |-> outcome = "ok"])
            /\ IF outcome = "ok"
               THEN /\ audio_file' = file
                    /\ disk' = disk \cup {file}
                    /\ created' = created \cup {file}
                    /\ pc' = IF info.download_type = "transcript" THEN "pod_read" ELSE "stt"
                    /\ UNCHANGED resp
               ELSE /\ Fail(PyError("ValueError", <<info.download_type, " download failed.">>),
                            IF outcome = "broken_stream" THEN {file} ELSE {})
                    /\ UNCHANGED audio_file
    /\ title' = FullTitle(info.podcast_name, info.episode_title)
    /\ UNCHANGED <<req, errs, captions, transcription, info, tmpn, sources, srcn, chunks, cpc, chat, sop>>

\* process_podcast, lines 738-754: a transcript file is read back
PodRead ==
    /\ pc = "pod_read"
    /\ title' = FullTitle(info.podcast_name, info.episode_title)
    /\ transcription' = <<"episode", " ", "transcript">>
    /\ pc' = "store"
    /\ UNCHANGED <<req, stages, errs, captions, audio_file, info, calls, created, disk, tmpn,
                   sources, srcn, chunks, resp, cpc, chat, sop>>

(***************************************************************************)
(* process_url                                                             *)
(***************************************************************************)
\* `pattern in url` for the three patterns of process_url: the pieces of a url
\* that contain the pattern
In(pattern, url) ==
    \E i \in 1..Len(url) :
        CASE pattern = "youtube.com" -> url[i] \in {"youtube.com/watch?v=", "youtube.com/shorts/"}
          [] pattern = "youtu.be" -> url[i] = "youtu.be/"
          [] pattern = "podcasts.apple.com" -> url[i] \in {"podcasts.apple.com/", "&ref=podcasts.apple.com/"}
          [] OTHER -> FALSE

\* url.strip()
RECURSIVE Strip(_)
Strip(url) ==
    IF url = << >> THEN url
    ELSE IF Head(url) = " " THEN Strip(Tail(url))
    ELSE IF url[Len(url)] = " " THEN Strip(SubSeq(url, 1, Len(url) - 1))
    ELSE url

\* urls given to /process-url: a video link that mentions the podcast site, a
\* short video link, a podcast episode, a link to another site, the empty string
UrlInputs == {<<"youtube.com/watch?v=", "vid1", "&ref=podcasts.apple.com/">>, <<"youtu.be/", "vid1">>,
              <<" ", "podcasts.apple.com/", "episode1">>, <<" ", "vimeo.com/", "vid3", " ">>, << >>}

\* every url that is not recognised is taken for a video
ClassifyUrlLenient(url) ==
    IF In("podcasts.apple.com", url) /\ ~In("youtube.com", url) /\ ~In("youtu.be", url)
    THEN "podcast" ELSE "youtube"

\* lines 811-823: the if / elif / else on the stripped url
ClassifyUrl(url) ==
    IF In("youtube.com", url) \/ In("youtu.be", url) THEN "youtube"
    ELSE IF In("podcasts.apple.com", url) THEN "podcast"
    ELSE "unsupported"

UnsupportedUrlType == HTTPException(400, <<"Unsupported URL type">>)

\* process_url: the request is handed to process_youtube or process_podcast with
\* the stripped url, or refused; the refusal is raised outside any try
ProcessUrl(url, uid) ==
    LET stripped == Strip(url)
        kind == ClassifyUrl(stripped)
    IN  IF kind = "youtube" THEN ProcessYoutubeFrom("url", stripped, uid)
        ELSE IF kind = "podcast" THEN ProcessPodcastFrom("url", stripped, uid)
        ELSE /\ EnterFrom("url", "unsupported", stripped, uid)
             /\ resp' = Response(UnsupportedUrlType.status, UnsupportedUrlType.detail, None, None)
             /\ pc' = "done"
             /\ UNCHANGED <<title, disk, tmpn, sources, srcn, chunks, cpc, chat, sop>>

(***************************************************************************)
(* Model capability table (config/model_config.py).                        *)
(***************************************************************************)
DEFAULT_CONTEXT_WINDOW == 4096

\* model names a caller may give: the three of the table, one the table does not
\* know, one of the table in another case, the empty string
ModelNames == {"gemma3:1b", "qwen3:1.7b", "ministral-3:3b", "llama3.2:3b", "GEMMA3:1B", ""}

\* the keys of MODEL_CONTEXT_WINDOWS
ModelContextWindowKeys == {"gemma3:1b", "qwen3:1.7b", "ministral-3:3b"}

\* MODEL_CONTEXT_WINDOWS[model_name]: no default for a name the table lacks
GetModelContextWindowNoDefault(model_name) ==
    CASE model_name = "gemma3:1b" -> 32000
      [] model_name = "qwen3:1.7b" -> 40000
      [] model_name = "ministral-3:3b" -> 256000
      [] OTHER -> 0

\* MODEL_CONTEXT_WINDOWS.get(model_name, DEFAULT_CONTEXT_WINDOW)
GetModelContextWindow(model_name) ==
    CASE model_name = "gemma3:1b" -> 32000
      [] model_name = "qwen3:1.7b" -> 40000
      [] model_name = "ministral-3:3b" -> 256000
      [] OTHER -> DEFAULT_CONTEXT_WINDOW

\* round(total * INPUT_RESERVE_RATIO)
GetMaxInputTokensRounded(model_name) == (GetModelContextWindow(model_name) * 8 + 5) \div 10

\* int(total * INPUT_RESERVE_RATIO), INPUT_RESERVE_RATIO = 0.8
GetMaxInputTokens(model_name) == (GetModelContextWindow(model_name) * 8) \div 10

GetMaxInputChars(model_name) == GetMaxInputTokens(model_name) * 4

(***************************************************************************)
(* Python numbers of chat_with_ollama.  A float is kept as hundred times   *)
(* its value; an int times the float literal 0.65 is a float.              *)
(***************************************************************************)
MulFloat065(n) == [float |-> TRUE, x100 |-> n * 65]

\* int(x // d)
FloorDivInt(x, d) == x.x100 \div (d * 100)

Min(a, b) == IF a < b THEN a ELSE b

Max(a, b) == IF a > b THEN a ELSE b

\* lines 393 and 459: get_max_input_chars(model_name) * 0.65
MaxContextChars(model_name) == MulFloat065(GetMaxInputChars(model_name))

\* line 394
DynamicKUncapped(model_name) == Max(5, FloorDivInt(MaxContextChars(model_name), 1000))

DynamicK(model_name) == Min(20, Max(5, FloorDivInt(MaxContextChars(model_name), 1000)))

(***************************************************************************)
(* Texts of the chat path and their lengths in characters.                 *)
(***************************************************************************)
AtomLen(a) ==
    CASE a = "[" -> 1
      [] a \in {"0", "1", "2", "3", "4", "5", "6", "7", "8", "9"} -> 1
      [] a = "] Source: " -> 10
      [] a = "\n" -> 1
      [] a = "\n\n" -> 2
      [] a = "Unknown Source (" -> 16
      [] a = ")" -> 1
      [] a = "youtube" -> 7
      [] a = "unknown" -> 7
      [] a = "chunk A" -> 1000
      [] a = "chunk B" -> 400
      [] a = "chunk C" -> 700
      [] a = "chunk D" -> 1000
      [] a = "Short Title" -> 24
      [] a = "Long Title" -> 9000
      [] a = "short context" -> 500
      [] a = "long context" -> 70000
      [] a = "\n\n... [Context truncated due to length]" -> 39
      [] OTHER -> 0

RECURSIVE StrLen(_)
StrLen(s) == IF s = << >> THEN 0 ELSE AtomLen(Head(s)) + StrLen(Tail(s))

\* len(s) > x for an int len and a float or int x
LenGreater(s, x) == StrLen(s) * 100 > x.x100

\* the leading atoms of s that lie within its first n characters
RECURSIVE TakeChars(_, _)
TakeChars(s, n) ==
    IF s = << >> \/ n <= 0 THEN << >>
    ELSE IF AtomLen(Head(s)) <= n THEN <<Head(s)>> \o TakeChars(Tail(s), n - AtomLen(Head(s)))
    ELSE <<"<cut>">>

\* s[:x]: a slice bound that is a float raises TypeError
SliceRaises(x) == x.float

TruncationMarker == <<"\n\n... [Context truncated due to length]">>

\* rows a search may return: chunks of source s1, of source s2, and a chunk whose
\* metadata carries no source_id
Doc(text, sid) == [page_content |-> <<text>>, source_id |-> sid, source |-> <<"youtube">>]

Docs == {Doc("chunk A", <<"s1">>), Doc("chunk B", <<"s1">>), Doc("chunk C", <<"s2">>),
         Doc("chunk D", None)}

\* contents of table `sources` as the title lookup of line 413 sees it
TitleTables == {[id \in {<<"s1">>, <<"s2">>} |-> IF id = <<"s1">> THEN <<"Short Title">> ELSE <<"Long Title">>],
                [id \in {<<"s1">>} |-> <<"Short Title">>]}

NoTitles == [id \in {} |-> << >>]

Contexts == {None, << >>, <<"short context">>, <<"long context">>}

\* lines 402-407: the distinct truthy source ids of the results
SourceIds(results) == {results[i].source_id : i \in 1..Len(results)} \ {None, << >>}

\* lines 410-417: source_id -> title, empty when there is nothing to look up or
\* the lookup raises
SourceTitlesMap(results, table, lookupOk) ==
    IF SourceIds(results) = {} \/ ~lookupOk THEN NoTitles
    ELSE [id \in SourceIds(results) \cap DOMAIN table |-> table[id]]

\* line 427
SourceTitle(doc, titles) ==
    IF doc.source_id \in DOMAIN titles THEN titles[doc.source_id]
    ELSE <<"Unknown Source (">> \o doc.source \o <<")">>

\* enumerate(search_results, 1)
CitationNumberFromZero(i) == i - 1

CitationNumber(i) == i

NumStr(n) == <<ToString(n)>>

\* lines 436-438
ContextPart(n, source_title, doc) ==
    <<"[">> \o NumStr(n) \o <<"] Source: ">> \o source_title \o <<"\n">> \o doc.page_content


\* one entry per distinct source id instead of one per retrieved chunk
SourceMapPerSource(results, titles) ==
    [key \in {ToString(i) : i \in 1..Cardinality({results[j].source_id : j \in 1..Len(results)})} |->
        [title |-> SourceTitle(results[1], titles), content |-> results[1].page_content]]

\* lines 419-438: citation number -> {title, content}, keyed by str(i)
SourceMap(results, titles) ==
    [key \in {ToString(CitationNumber(i)) : i \in 1..Len(results)} |->
        LET i == CHOOSE j \in 1..Len(results) : ToString(CitationNumber(j)) = key
        IN  [title |-> SourceTitle(results[i], titles), content |-> results[i].page_content]]

ContextParts(results, titles) ==
    [i \in 1..Len(results) |->
        ContextPart(CitationNumber(i), SourceTitle(results[i], titles), results[i])]

\* the map of an earlier call is still there when the next call starts
EmptySourceMapKeptBetweenCalls == [key \in {"1"} |-> [title |-> <<"Short Title">>, content |-> <<"chunk A">>]]

\* line 387: source_map = {}, a local of each call
EmptySourceMap == [key \in {} |-> << >>]

\* lines 443-454: the caller's context stands in when retrieval gave nothing
FallbackContext(context) == IF Truthy(context) THEN context ELSE None

(***************************************************************************)
(* chat_with_ollama (lines 374-528)                                        *)
(***************************************************************************)
ChatWithOllama(model_name, context, searchOk, results, table, lookupOk, llm) ==
    /\ cpc = "idle"
    /\ LET budget == MaxContextChars(model_name)
           k == DynamicK(model_name)
           hit == searchOk /\ results # << >>
           titles == SourceTitlesMap(results, table, lookupOk)
           source_map == IF hit THEN SourceMap(results, titles) ELSE EmptySourceMap
           parts == IF hit THEN ContextParts(results, titles) ELSE << >>
           enhanced == IF hit THEN Join(<<"\n\n">>, parts) ELSE FallbackContext(context)
           over == Truthy(enhanced) /\ LenGreater(enhanced, budget)
           sliceError == over /\ SliceRaises(budget)
           prompt_context ==
               IF ~Truthy(enhanced) \/ sliceError THEN None
               ELSE IF over THEN TakeChars(enhanced, budget.x100 \div 100) \o TruncationMarker
               ELSE enhanced
           outcome ==
               IF sliceError
               THEN HTTPException(500, <<"Failed to generate chat response: ",
                                         "slice indices must be integers or None or have an __index__ method">>)
               ELSE CASE llm = "ok" -> [type |-> "return", status |-> 200, detail |-> <<"answer">>]
                      [] llm = "timeout" -> HTTPException(408, <<"Response generation timed out. Please try a simpler question.">>)
                      [] llm = "unreachable" -> HTTPException(503, <<"Cannot connect to Ollama service. Please make sure the service is running.">>)
                      [] OTHER -> HTTPException(500, <<"Failed to generate chat response: ", "500 Server Error">>)
       IN  chat' = [model_name |-> model_name,
                    context_window |-> GetModelContextWindow(model_name),
                    max_input_chars |-> GetMaxInputChars(model_name),
                    context |-> context,
                    k |-> k,
                    search_k |-> k,
                    searched |-> IF ~searchOk THEN "raised" ELSE IF hit THEN "hit" ELSE "empty",
                    results |-> IF searchOk THEN results ELSE << >>,
                    titles |-> titles,
                    source_map |-> source_map,
                    context_parts |-> parts,
                    enhanced_context |-> enhanced,
                    prompt |-> IF sliceError THEN "none" ELSE IF Truthy(enhanced) THEN "rag" ELSE "no_context",
                    prompt_context |-> prompt_context,
                    llm |-> llm,
                    llm_called |-> ~sliceError,
                    status |-> outcome.status,
                    detail |-> outcome.detail,
                    sources |-> IF outcome.type = "return" THEN source_map ELSE EmptySourceMap]
    /\ cpc' = "done"
    /\ UNCHANGED ingestVars

\* the caller has the result; the next call starts with fresh locals
ChatReturn ==
    /\ cpc = "done"
    /\ cpc' = "idle"
    /\ chat' = NoChat
    /\ UNCHANGED ingestVars

LlmOutcomes == {"ok", "timeout", "unreachable", "http_error"}

\* one call of chat_with_ollama with a vector store at hand; a failed search
\* returns no rows, and a search returns at most match_count rows
ChatCall ==
    /\ cpc = "idle"
    /\ \E model_name \in ModelNames, context \in Contexts, searchOk \in BOOLEAN,
          results \in SeqsUpTo(Docs, MaxResults), table \in TitleTables,
          lookupOk \in BOOLEAN, llm \in LlmOutcomes :
            /\ searchOk \/ results = << >>
            /\ Len(results) <= DynamicK(model_name)
            /\ ChatWithOllama(model_name, context, searchOk, results, table, lookupOk, llm)

NextChat ==
    \/ ChatCall
    \/ ChatReturn

SpecChat == Init /\ [][NextChat]_vars

(***************************************************************************)
(* The store statements of the handlers and SupabaseVectorDB, one request  *)
(* at a time, for a user id that get_current_user has delivered.           *)
(***************************************************************************)
StoreUrls == YoutubeUrls \cup PodcastUrls

UrlKind(url) == IF url \in PodcastUrls THEN "podcast" ELSE "youtube"

Transcripts == {<< >>, <<"hello">>, <<"spoken", " ", "words">>}

\* lines 613-648 of process_youtube and their like in process_podcast: store
\* the transcript, summarise, answer; any exception is answered by
\* HTTPException(500, detail=str(e))
IngestStore(uid, url, text, chunksOk, summaryOk) ==
    /\ sop = NoOp
    /\ srcn < MaxSources
    /\ LET st == StoreStatements(sources, chunks, srcn, uid, <<"Video Title">>, url,
                                  UrlKind(url), text, chunksOk)
           answer == IF st.error # "none" THEN ErrorResponse(StoreError(st.error))
                     ELSE IF ~summaryOk THEN ErrorResponse(SummaryTimeout)
                     ELSE Response(200, << >>, <<"Video Title">>, text)
       IN  /\ sources' = st.sources
           /\ srcn' = st.srcn
           /\ chunks' = st.chunks
           /\ sop' = [op |-> "ingest", user |-> uid, url |-> url, text |-> text,
                      error |-> st.error, source_id |-> st.source_id,
                      status |-> answer.status, detail |-> answer.detail]
    /\ UNCHANGED <<handlerVars, cpc, chat>>

\* create_source, lines 902-923
CreateSource(uid, url) ==
    /\ sop = NoOp
    /\ srcn < MaxSources
    /\ LET dup == UniqueViolation(sources, uid, url)
           row == [id |-> SourceId(srcn + 1), user_id |-> uid, title |-> <<"Video Title">>,
                   url |-> url, type |-> UrlKind(url)]
       IN  /\ sources' = IF dup THEN sources ELSE sources \cup {row}
           /\ srcn' = IF dup THEN srcn ELSE srcn + 1
           /\ sop' = [op |-> "create_source", user |-> uid, url |-> url,
                      error |-> IF dup THEN "duplicate" ELSE "none",
                      source_id |-> IF dup THEN None ELSE row.id,
                      status |-> IF dup THEN 409 ELSE 200,
                      detail |-> IF dup THEN <<"This source already exists">> ELSE << >>]
    /\ UNCHANGED <<handlerVars, chunks, cpc, chat>>

\* delete_source, line 939: .delete().eq('id', source_id).eq('user_id', user['id'])
SourcesDeleteNothing(rows, source_id, user_id) == {}

SourcesDelete(rows, source_id, user_id) ==
    {r \in rows : r.id = source_id /\ r.user_id = user_id}

\* delete_source, lines 933-943
DeleteSource(uid, source_id) ==
    /\ sop = NoOp
    /\ LET found == {r \in sources : r.id = source_id /\ r.user_id = uid}
           deleted == SourcesDelete(sources, source_id, uid)
       IN  IF found = {}
           THEN /\ sop' = [op |-> "delete_source", user |-> uid, source_id |-> source_id,
                           status |-> 404, detail |-> <<"Source not found">>]
                /\ UNCHANGED <<sources, chunks>>
           ELSE /\ sources' = sources \ deleted
                /\ chunks' = CascadeDelete(chunks, deleted)
                /\ sop' = [op |-> "delete_source", user |-> uid, source_id |-> source_id,
                           status |-> 200, detail |-> << >>,
                           removed |-> Cardinality(chunks \ CascadeDelete(chunks, deleted))]
    /\ UNCHANGED <<handlerVars, srcn, cpc, chat>>

\* search, line 119: 'filter_user_id': self.user_id
FilterUserId(db) == db.user_id

\* search, lines 123-133: the rows of the answer in the order they came, without
\* those the source_id filter rejects
SearchKeep(data, source_id) ==
    SelectSeq(data, LAMBDA item :
        ~(Truthy(source_id) /\ DictGet(item.metadata, "source_id") # source_id))

\* results.insert(0, ...) instead of results.append(...)
SearchItemsPrepended(kept) ==
    [i \in 1..Len(kept) |->
        [page_content |-> kept[Len(kept) + 1 - i].content,
         metadata |-> kept[Len(kept) + 1 - i].metadata,
         similarity |-> kept[Len(kept) + 1 - i].similarity]]

SearchItems(kept) ==
    [i \in 1..Len(kept) |->
        [page_content |-> kept[i].content, metadata |-> kept[i].metadata,
         similarity |-> kept[i].similarity]]

\* s[:k]
SliceTo(s, k) ==
    IF k >= 0 THEN SubSeq(s, 1, Min(k, Len(s))) ELSE SubSeq(s, 1, Max(Len(s) + k, 0))

\* the k the callers pass: any integer of the search endpoint, dynamic_k of chat
SearchKs == (-1..MaxK) \cup {DynamicK(m) : m \in ModelNames}

\* SupabaseVectorDB.search of the adapter of user uid, as search_transcripts
\* (line 855) and chat_with_ollama (line 398) call it; any exception is raised again
Search(uid, k, source_id, embedOk) ==
    /\ sop = NoOp
    /\ LET db == GetUserVectorDb(uid)
           answers == IF embedOk THEN MatchDocumentChunks(chunks, k, FilterUserId(db)) ELSE {}
       IN  IF answers = {}
           THEN sop' = [op |-> "search", user |-> uid, k |-> k, source_id |-> source_id,
                        status |-> "raised", data |-> << >>, results |-> << >>]
           ELSE \E data \in answers :
                sop' = [op |-> "search", user |-> uid, k |-> k, source_id |-> source_id,
                        status |-> "ok", data |-> data,
                        results |-> SliceTo(SearchItems(SearchKeep(data, source_id)), k)]
    /\ UNCHANGED <<handlerVars, sources, srcn, chunks, cpc, chat>>

\* the caller has the answer
StoreReturn ==
    /\ sop # NoOp
    /\ sop' = NoOp
    /\ UNCHANGED <<handlerVars, sources, srcn, chunks, cpc, chat>>

NextStore ==
    \/ \E uid \in Users, url \in StoreUrls, text \in Transcripts, chunksOk \in BOOLEAN,
          summaryOk \in BOOLEAN : IngestStore(uid, url, text, chunksOk, summaryOk)
    \/ \E uid \in Users, url \in StoreUrls : CreateSource(uid, url)
    \/ \E uid \in Users, n \in 1..MaxSources : DeleteSource(uid, SourceId(n))
    \/ \E uid \in Users, k \in SearchKs, source_id \in {None} \cup {SourceId(n) : n \in 1..MaxSources},
          embedOk \in BOOLEAN : Search(uid, k, source_id, embedOk)
    \/ StoreReturn

SpecStore == Init /\ [][NextStore]_vars

(***************************************************************************)
(* SupabaseVectorDB.add_texts and delete_by_source called on their own.    *)
(***************************************************************************)
TextChunks == {<<"hello">>, <<"words">>}

MetadataDicts == {[source |-> <<"youtube">>]}

MetadataArgs == {NoList} \cup {List(l) : l \in SeqsUpTo(MetadataDicts, MaxTexts + 1)}

\* add_texts, lines 63-94: embedding or the batch insert may raise
AddTexts(uid, texts, source_id, metadata, insertOk) ==
    /\ sop = NoOp
    /\ Cardinality(chunks) + Len(texts) <= MaxRows
    /\ LET db == GetUserVectorDb(uid)
           raised == AddTextsRaises(texts, metadata) \/ (texts # << >> /\ ~insertOk)
           rows == IF raised THEN {} ELSE AddTextsRows(db, texts, source_id, metadata)
       IN  /\ chunks' = chunks \cup rows
           /\ sop' = [op |-> "add_texts", user |-> uid, texts |-> texts, metadata |-> metadata,
                      source_id |-> source_id,
                      status |-> IF raised THEN "raised" ELSE "ok", persisted |-> rows]
    /\ UNCHANGED <<handlerVars, sources, srcn, cpc, chat>>

\* delete_by_source, lines 150-155
DeleteBySource(uid, source_id) ==
    /\ sop = NoOp
    /\ LET db == GetUserVectorDb(uid)
       IN  /\ chunks' = {c \in chunks : ~(c.source_id = source_id /\ c.user_id = db.user_id)}
           /\ sop' = [op |-> "delete_by_source", user |-> uid, source_id |-> source_id,
                      status |-> "ok"]
    /\ UNCHANGED <<handlerVars, sources, srcn, cpc, chat>>

NextAddTexts ==
    \/ \E uid \in Users, texts \in SeqsUpTo(TextChunks, MaxTexts), metadata \in MetadataArgs,
          insertOk \in BOOLEAN : AddTexts(uid, texts, SourceId(1), metadata, insertOk)
    \/ \E uid \in Users : DeleteBySource(uid, SourceId(1))
    \/ StoreReturn

SpecAddTexts == Init /\ [][NextAddTexts]_vars

(***************************************************************************)
(* TextSplitter.split_text and split_file called on their own.  The chunks *)
(* the library's RecursiveCharacterTextSplitter returns are any sequence   *)
(* of chunks, blank ones included.                                         *)
(***************************************************************************)
SplitterChunks == {<< >>, <<" ">>, <<"\n", " ">>, <<"hello">>, <<" ", "words", "\n">>}

SplitTextCall(cs) ==
    /\ sop = NoOp
    /\ sop' = [op |-> "split_text", chunks |-> cs, returned |-> KeepChunks(cs)]
    /\ UNCHANGED <<handlerVars, sources, srcn, chunks, cpc, chat>>

\* split_file: the text is read from the file, then split and filtered alike
SplitFileCall(cs) ==
    /\ sop = NoOp
    /\ sop' = [op |-> "split_file", chunks |-> cs, returned |-> KeepChunks(cs)]
    /\ UNCHANGED <<handlerVars, sources, srcn, chunks, cpc, chat>>

NextSplit ==
    \/ \E cs \in SeqsUpTo(SplitterChunks, MaxChunks) : SplitTextCall(cs)
    \/ \E cs \in SeqsUpTo(SplitterChunks, MaxChunks) : SplitFileCall(cs)
    \/ StoreReturn

SpecSplit == Init /\ [][NextSplit]_vars

(***************************************************************************)
(* The endpoint DELETE /sources/{source_id} as a whole, on stores filled   *)
(* by the store statements of the ingest handlers.                         *)
(***************************************************************************)
\* delete_source, lines 925-948: user['token'] of line 930 is read inside the
\* try; its KeyError is not an HTTPException and is answered with status 500
DeleteSourceRequest(uid, source_id) ==
    IF HasKey(GetCurrentUser(uid), "token")
    THEN DeleteSource(uid, source_id)
    ELSE /\ sop = NoOp
         /\ sop' = [op |-> "delete_source", user |-> uid, source_id |-> source_id,
                    status |-> ErrorResponse(KeyErrorToken).status,
                    detail |-> ErrorResponse(KeyErrorToken).detail]
         /\ UNCHANGED <<handlerVars, sources, srcn, chunks, cpc, chat>>

NextDelete ==
    \/ \E uid \in Users, url \in StoreUrls, text \in Transcripts, chunksOk \in BOOLEAN,
          summaryOk \in BOOLEAN : IngestStore(uid, url, text, chunksOk, summaryOk)
    \/ \E uid \in Users, n \in 1..MaxSources : DeleteSourceRequest(uid, SourceId(n))
    \/ StoreReturn

SpecDelete == Init /\ [][NextDelete]_vars

(***************************************************************************)
(* User preferences (services/user_preferences.py) and the model the chat  *)
(* endpoint takes from them.  The service methods are called with an       *)
(* access token at hand; table user_preferences is the field `prefs`.      *)
(***************************************************************************)
AVAILABLE_MODELS == {"gemma3:1b", "gemma3:4b", "gemma3:12b", "gemma3:27b", "qwen3:1.7b", "qwen3:4b",
                     "qwen3:8b", "qwen3:14b", "qwen3:30b", "llama3.2:1b", "llama3.2:3b", "llama3:8b"}

DEFAULT_MODEL == "gemma3:1b"

\* names a client may send: the available ones, a name of the capability table
\* that is not available, and a name neither knows
PreferredModelInputs == AVAILABLE_MODELS \cup {"ministral-3:3b", "gpt-x"}

NoPrefs == [u \in Users |-> "unset"]

PrefsTable == IF sop = NoOp THEN NoPrefs ELSE sop.prefs

\* update_user_preferences, lines 79-124: ValueError for a name outside
\* AVAILABLE_MODELS, otherwise the row of the user is updated or inserted
UpdateUserPreferences(uid, preferred_model) ==
    /\ sop = NoOp \/ sop.op \in {"update_user_preferences", "chat_preferred"}
    /\ sop' = IF preferred_model \notin AVAILABLE_MODELS
              THEN [op |-> "update_user_preferences", prefs |-> PrefsTable, user |-> uid,
                    model |-> preferred_model, accepted |-> FALSE, status |-> 400,
                    context_window |-> 0, k |-> 0]
              ELSE [op |-> "update_user_preferences",
                    prefs |-> [PrefsTable EXCEPT ![uid] = preferred_model], user |-> uid,
                    model |-> preferred_model, accepted |-> TRUE, status |-> 200,
                    context_window |-> 0, k |-> 0]
    /\ UNCHANGED <<handlerVars, sources, srcn, chunks, cpc, chat>>

\* chat, lines 832-842, for a request that names no model: get_user_preferences
\* (lines 33-76) returns the stored model, creating the default row when there
\* is none; chat_with_ollama then computes budget and k for that model
ChatPreferred(uid, insertOk) ==
    /\ sop = NoOp \/ sop.op \in {"update_user_preferences", "chat_preferred"}
    /\ LET stored == PrefsTable[uid]
           model_to_use == IF stored = "unset" THEN DEFAULT_MODEL ELSE stored
       IN  sop' = [op |-> "chat_preferred",
                   prefs |-> IF stored = "unset" /\ insertOk
                             THEN [PrefsTable EXCEPT ![uid] = DEFAULT_MODEL] ELSE PrefsTable,
                   user |-> uid, model |-> model_to_use, accepted |-> stored # "unset", status |-> 200,
                   context_window |-> GetModelContextWindow(model_to_use),
                   k |-> DynamicK(model_to_use)]
    /\ UNCHANGED <<handlerVars, sources, srcn, chunks, cpc, chat>>

NextPrefs ==
    \/ \E uid \in Users, m \in PreferredModelInputs : UpdateUserPreferences(uid, m)
    \/ \E uid \in Users, insertOk \in BOOLEAN : ChatPreferred(uid, insertOk)

SpecPrefs == Init /\ [][NextPrefs]_vars

(***************************************************************************)
(* The speech-to-text model of the process.  main.py loads it when the     *)
(* module is imported ("eager"); the second main.py of the repository      *)
(* loads it in get_whisper_model on first use ("lazy").  transcribe_audio  *)
(* is a plain function called by coroutines of the one event loop.         *)
(***************************************************************************)
Variants == {"eager", "lazy"}

Tasks == 1..MaxTasks

IdleTask == [at |-> "idle", seen |-> "none", last |-> "none"]

\* calls of transcribe_audio run on several threads at once
WhisperLoopFreeThreaded(task) == TRUE

\* a coroutine reaches its call of transcribe_audio only when no other one is
\* inside it: transcribe_audio and get_whisper_model have no await
WhisperLoopFree(task) == \A u \in DOMAIN task : task[u].at # "running"

\* the module is imported: `model = whisper.load_model("base")` at import, a
\* failure is raised again and ends the process; or `_whisper_model = None`
StartProcess(variant, ok) ==
    /\ sop = NoOp
    /\ sop' = [op |-> "stt", variant |-> variant,
               model |-> IF variant = "lazy" THEN "none" ELSE IF ok THEN "loaded" ELSE "import_failed",
               loads |-> IF variant = "eager" /\ ok THEN 1 ELSE 0,
               attempts |-> IF variant = "eager" THEN 1 ELSE 0,
               calls |-> 0, reloaded |-> FALSE, concurrent_first |-> FALSE,
               task |-> [t \in Tasks |-> IdleTask]]
    /\ UNCHANGED <<handlerVars, sources, srcn, chunks, cpc, chat>>

\* a request that will transcribe is received
TranscribeRequest(t) ==
    /\ sop.op = "stt"
    /\ sop.model # "import_failed"
    /\ sop.task[t].at = "idle"
    /\ sop.calls < MaxCalls
    /\ sop' = [sop EXCEPT !.task[t].at = "waiting", !.calls = @ + 1]
    /\ UNCHANGED <<handlerVars, sources, srcn, chunks, cpc, chat>>

\* transcribe_audio is entered: `model` is the global, or get_whisper_model
\* tests `_whisper_model is None`
TranscribeBegin(t) ==
    /\ sop.op = "stt"
    /\ sop.task[t].at = "waiting"
    /\ WhisperLoopFree(sop.task)
    /\ sop' = [sop EXCEPT !.task[t].at = "running", !.task[t].seen = sop.model,
                          !.concurrent_first = @ \/ (sop.model = "none" /\
                               \E u \in Tasks \ {t} : sop.task[u].at \in {"waiting", "running"})]
    /\ UNCHANGED <<handlerVars, sources, srcn, chunks, cpc, chat>>

\* get_whisper_model after the test: load_model and the assignment when the
\* test saw None, a failing load leaves None; then model.transcribe
TranscribeEnd(t, ok) ==
    /\ sop.op = "stt"
    /\ sop.task[t].at = "running"
    /\ sop' = IF sop.task[t].seen # "none"
              THEN [sop EXCEPT !.task[t].at = "idle", !.task[t].last = "cached"]
              ELSE IF ok
              THEN [sop EXCEPT !.task[t].at = "idle", !.task[t].last = "loaded",
                               !.model = "loaded", !.loads = @ + 1, !.attempts = @ + 1,
                               !.reloaded = @ \/ sop.model = "loaded"]
              ELSE [sop EXCEPT !.task[t].at = "idle", !.task[t].last = "raised", !.attempts = @ + 1]
    /\ UNCHANGED <<handlerVars, sources, srcn, chunks, cpc, chat>>

NextWhisper ==
    \/ \E variant \in Variants, ok \in BOOLEAN : StartProcess(variant, ok)
    \/ \E t \in Tasks : TranscribeRequest(t)
    \/ \E t \in Tasks : TranscribeBegin(t)
    \/ \E t \in Tasks, ok \in BOOLEAN : TranscribeEnd(t, ok)

SpecWhisper == Init /\ [][NextWhisper]_vars

(***************************************************************************)
(* TranscriptFetcher.get_youtube_transcript called on its own.             *)
(***************************************************************************)
FetchOutcomes == {<<"raises">>} \cup {<<"ok", es>> : es \in SeqsUpTo(EntryTexts, MaxEntries)}

GetYoutubeTranscriptCall(url, listed, listing, fetched) ==
    /\ sop = NoOp
    /\ LET result == YoutubeTranscriptResult(url, listed, listing, fetched)
       IN  sop' = [op |-> "get_youtube_transcript", url |-> url, listed |-> listed,
                   listing |-> listing, fetched |-> fetched[1] = "ok",
                   found |-> result.found, track |-> result.track,
                   transcript |-> IF result.found THEN FullText(result.entries) ELSE None,
                   source |-> IF result.found THEN TranscriptSource(result.track) ELSE None]
    /\ UNCHANGED <<handlerVars, sources, srcn, chunks, cpc, chat>>

NextCaptions ==
    \/ \E url \in YoutubeUrls, listed \in BOOLEAN, listing \in SUBSET CaptionTracks,
          fetched \in FetchOutcomes : GetYoutubeTranscriptCall(url, listed, listing, fetched)
    \/ StoreReturn

SpecCaptions == Init /\ [][NextCaptions]_vars

(***************************************************************************)
(* The server: uvicorn.run(app) is one process with one event loop, and the  *)
(* handlers are coroutines on it.  A coroutine keeps the loop until it       *)
(* awaits; the only await of the ingest handlers is `await file.read()` of   *)
(* process_audio, the download and the transcription are plain calls.        *)
(***************************************************************************)
\* a handler is between its first statement and its return, and not at an await
LoopBusy == pc \notin {"idle", "done", "upload"}

\* a request of another user is received while the loop is busy: it waits
Arrive(kind, url, uid) ==
    /\ LoopBusy
    /\ req.next = NoNext
    /\ uid # req.user.id
    /\ req' = [req EXCEPT !.next = [kind |-> kind, url |-> url, uid |-> uid]]
    /\ UNCHANGED <<pc, stages, errs, captions, transcription, title, audio_file, info, calls,
                   created, disk, tmpn, sources, srcn, chunks, resp, cpc, chat, sop>>

\* search_transcripts, lines 848-865: a coroutine without await; user['token']
\* of line 853 is inside the try, so its KeyError is answered with status 500
SearchTranscripts(uid, k) ==
    /\ ~LoopBusy
    /\ IF HasKey(GetCurrentUser(uid), "token")
       THEN Search(uid, k, None, TRUE)
       ELSE /\ sop = NoOp
            /\ sop' = [op |-> "search_transcripts", user |-> uid, k |-> k,
                       status |-> ErrorResponse(KeyErrorToken).status,
                       detail |-> ErrorResponse(KeyErrorToken).detail]
            /\ UNCHANGED <<handlerVars, sources, srcn, chunks, cpc, chat>>

\* requests for one video and one podcast episode by either user, and searches
NextServer ==
    \/ \E uid \in Users : ProcessYoutube(<<"youtube.com/watch?v=", "vid1">>, uid)
    \/ \E url \in PodcastUrls, uid \in Users : ProcessPodcast(url, uid)
    \/ \E uid \in Users : SearchTranscripts(uid, 5)
    \/ StoreReturn
    \/ GetYoutubeTranscript
    \/ DownloadStage
    \/ TranscribeAudio
    \/ StoreAndSummarize
    \/ PodScrape
    \/ PodFeed
    \/ PodDownload
    \/ PodRead

SpecServer == Init /\ [][NextServer]_vars

\* requests for one video and one podcast episode by either user, and requests
\* that are received meanwhile
NextQueue ==
    \/ \E uid \in Users : ProcessYoutube(<<"youtube.com/watch?v=", "vid1">>, uid)
    \/ \E url \in PodcastUrls, uid \in Users : ProcessPodcast(url, uid)
    \/ \E uid \in Users : Arrive("youtube", <<"youtube.com/watch?v=", "vid1">>, uid)
    \/ \E url \in PodcastUrls, uid \in Users : Arrive("podcast", url, uid)
    \/ GetYoutubeTranscript
    \/ DownloadStage
    \/ TranscribeAudio
    \/ StoreAndSummarize
    \/ PodScrape
    \/ PodFeed
    \/ PodDownload
    \/ PodRead

SpecQueue == Init /\ [][NextQueue]_vars

NextIngest ==
    \/ \E url \in YoutubeUrls \cup {None}, uid \in Users : ProcessYoutube(url, uid)
    \/ GetYoutubeTranscript
    \/ DownloadStage
    \/ TranscribeAudio
    \/ StoreAndSummarize
    \/ \E uid \in Users : ProcessAudio(uid)
    \/ SaveUpload
    \/ \E url \in PodcastUrls \cup {None}, uid \in Users : ProcessPodcast(url, uid)
    \/ PodScrape
    \/ PodFeed
    \/ PodDownload
    \/ PodRead

SpecIngest == Init /\ [][NextIngest]_vars

\* requests that come by /process-url
NextUrl ==
    \/ \E url \in UrlInputs, uid \in Users : ProcessUrl(url, uid)
    \/ GetYoutubeTranscript
    \/ DownloadStage
    \/ TranscribeAudio
    \/ StoreAndSummarize
    \/ PodScrape
    \/ PodFeed
    \/ PodDownload
    \/ PodRead

SpecUrl == Init /\ [][NextUrl]_vars

Next == NextIngest \/ NextChat \/ NextStore \/ NextAddTexts \/ NextCaptions \/ NextSplit \/ NextWhisper \/ NextDelete \/ NextPrefs \/ NextUrl \/ NextServer \/ NextQueue

Spec == Init /\ [][Next]_vars

(***************************************************************************)
(* Claims about acquisition.                                               *)
(***************************************************************************)
Done(kind) == pc = "done" /\ req.kind = kind /\ resp.status # 400

\* C1: for a video the strategies are started in the fixed order captions,
\* primary, permissive, video-quality floor, maximum permissiveness; every
\* strategy before the last one started has failed, so none is started after a
\* strategy that yielded a transcript or an audio file.
C1_FixedOrderStopAtFirstSuccess ==
    req.kind = "youtube" =>
        /\ Len(stages) <= Len(StageOrder)
        /\ \A i \in 1..Len(stages) :
            /\ stages[i].name = StageOrder[i]
            /\ i < Len(stages) => ~stages[i].ok

\* a video whose captions and first two download configurations failed and
\* whose third succeeded
C1_Witness ==
    /\ req.kind = "youtube"
    /\ Len(stages) = 4
    /\ stages[4].ok
    /\ pc = "done"

\* C2 as stated: a finished video ingest whose captions were fetched answers
\* with exactly the caption entries joined by single spaces, and neither the
\* audio downloader nor speech-to-text was invoked.
C2_CaptionsReturnedVerbatim ==
    (Done("youtube") /\ captions.found) =>
        /\ resp.status = 200
        /\ resp.transcription = FullText(captions.entries)
        /\ "downloader" \notin calls
        /\ "stt" \notin calls

\* C3: when all four download configurations have failed the request ends with
\* one error whose message carries the four failure reasons in stage order.
C3_CompositeErrorReported ==
    (Done("youtube") /\ Len(errs) = 4) =>
        /\ resp.status >= 400
        /\ \E p \in [1..4 -> 1..Len(resp.detail)] :
            /\ \A i \in 1..4 : resp.detail[p[i]] = errs[i]
            /\ \A i \in 1..3 : p[i] < p[i + 1]

\* all four configurations failed, the third for another reason than the rest
C3_Witness ==
    /\ Done("youtube")
    /\ Len(errs) = 4
    /\ errs[3] # errs[1]
    /\ errs[3] # errs[2]
    /\ errs[3] # errs[4]

\* C4 as stated: when a video or uploaded-audio ingest has finished, no file it
\* created is left on disk.
C4_NoTempFileRemains ==
    (Done("youtube") \/ Done("audio")) => created \cap disk = {}

\* C5 as stated: when a podcast ingest has finished, no file it wrote to the
\* downloads directory is left there.
C5_NoPodcastFileRemains ==
    Done("podcast") => created \cap disk = {}

(***************************************************************************)
(* Claims about chat.                                                      *)
(***************************************************************************)
ChatDone == cpc = "done"

EndsWith(s, suffix) ==
    /\ Len(s) >= Len(suffix)
    /\ SubSeq(s, Len(s) - Len(suffix) + 1, Len(s)) = suffix

\* C6 as stated: the context block placed in the prompt is never longer than
\* maxInputChars(model) * 0.65, and an assembled block longer than that is cut
\* and placed in the prompt ending with the truncation marker.
C6_ContextCutToBudget ==
    ChatDone =>
        /\ Truthy(chat.prompt_context) =>
               ~LenGreater(chat.prompt_context, MaxContextChars(chat.model_name))
        /\ (Truthy(chat.enhanced_context)
              /\ LenGreater(chat.enhanced_context, MaxContextChars(chat.model_name))) =>
               /\ chat.prompt = "rag"
               /\ EndsWith(chat.prompt_context, TruncationMarker)

\* C7 as stated: whenever the language model service answers, the call returns
\* an answer, whatever retrieval gave and however long the context is.
C7_AnswerWheneverModelAnswers ==
    (ChatDone /\ chat.llm = "ok") => chat.status = 200

\* C8 as stated: when the search raised or returned nothing, the prompt is built
\* from the caller's context if one was given and is the no-context prompt
\* otherwise, and the call does not fail on account of the retrieval.
C8_FallbackToCallerContext ==
    (ChatDone /\ chat.searched \in {"raised", "empty"}) =>
        /\ Truthy(chat.context) =>
               (chat.prompt = "rag" /\ chat.enhanced_context = chat.context)
        /\ ~Truthy(chat.context) => chat.prompt = "no_context"
        /\ chat.llm = "ok" => chat.status = 200

\* a hundred times contextCharBudget = maxInputChars(model) * 0.65
C9_Budget100(model_name) == GetMaxInputChars(model_name) * 65

C9_Clamp(x, lo, hi) == IF x < lo THEN lo ELSE IF x > hi THEN hi ELSE x

\* C9: the k handed to the search is clamp(floor(contextCharBudget / 1000), 5, 20)
\* for every model name, in the table or not, hence between 5 and 20.
C9_DynamicKClamped ==
    ChatDone =>
        /\ chat.search_k = C9_Clamp(C9_Budget100(chat.model_name) \div 100000, 5, 20)
        /\ chat.search_k >= 5
        /\ chat.search_k <= 20

\* a model the table does not know: budget 8517.6, k = 8, search answered
C9_Witness ==
    /\ ChatDone
    /\ chat.model_name = "llama3.2:3b"
    /\ chat.search_k = 8
    /\ chat.searched = "hit"

\* C10: the N retrieved chunks are numbered 1..N in the order the search ranked
\* them: part n of the context block is "[n] Source: <title>\n<text>" of the
\* n-th result, and citation n holds that result's text and resolved title.
C10_CitationsInRankOrder ==
    (ChatDone /\ chat.searched = "hit") =>
        LET N == Len(chat.results) IN
        /\ Len(chat.context_parts) = N
        /\ DOMAIN chat.source_map = {ToString(n) : n \in 1..N}
        /\ \A n \in 1..N :
            LET doc == chat.results[n]
                cited == chat.source_map[ToString(n)]
            IN  /\ cited.content = doc.page_content
                /\ doc.source_id \in DOMAIN chat.titles => cited.title = chat.titles[doc.source_id]
                /\ chat.context_parts[n] =
                       <<"[", ToString(n), "] Source: ">> \o cited.title \o <<"\n">> \o doc.page_content
        /\ chat.enhanced_context = Join(<<"\n\n">>, chat.context_parts)
        /\ chat.status = 200 => chat.sources = chat.source_map

\* three different chunks of two sources were retrieved and the answer returned
C10_Witness ==
    /\ ChatDone
    /\ chat.searched = "hit"
    /\ Len(chat.results) = 3
    /\ chat.results[1].source_id # chat.results[2].source_id
    /\ chat.results[2].page_content # chat.results[3].page_content
    /\ chat.results[2].source_id \in DOMAIN chat.titles
    /\ chat.status = 200

\* the source ids of the retrieved chunks, a missing one counted as one more
DistinctSourceIds(results) == {results[n].source_id : n \in 1..Len(results)}

\* C11 as stated: the citation map has as many entries as there are distinct
\* source ids among the retrieved chunks.
C11_MapSizeIsDistinctSources ==
    (ChatDone /\ chat.searched = "hit") =>
        Cardinality(DOMAIN chat.source_map) = Cardinality(DistinctSourceIds(chat.results))

\* C11 amended: the citation map has one entry per retrieved chunk, so two chunks
\* of one source give two entries; entries of chunks of one source whose title
\* was resolved carry the same title.
C11_MapSizeIsChunkCount ==
    (ChatDone /\ chat.searched = "hit") =>
        /\ Cardinality(DOMAIN chat.source_map) = Len(chat.results)
        /\ \A m, n \in 1..Len(chat.results) :
               (chat.results[m].source_id = chat.results[n].source_id
                  /\ chat.results[m].source_id \in DOMAIN chat.titles) =>
               chat.source_map[ToString(m)].title = chat.source_map[ToString(n)].title

\* two different chunks of the same source were retrieved and the answer returned
C11_Witness ==
    /\ ChatDone
    /\ chat.searched = "hit"
    /\ Len(chat.results) = 2
    /\ chat.results[1].source_id = chat.results[2].source_id
    /\ chat.results[1].page_content # chat.results[2].page_content
    /\ chat.results[1].source_id \in DOMAIN chat.titles
    /\ chat.status = 200

\* line 427: the default of source_titles_map.get
Placeholder(doc) == <<"Unknown Source (">> \o doc.source \o <<")">>

\* C12 as stated: a retrieved chunk whose source id is missing, is not in the
\* Source store, or whose title lookup failed is cited with the placeholder
\* title, and when the language model answers the request completes with all
\* retrieved chunks in the context of the prompt.
C12_PlaceholderAndRequestCompletes ==
    (/\ ChatDone
     /\ chat.searched = "hit"
     /\ chat.llm = "ok"
     /\ \E n \in 1..Len(chat.results) : chat.results[n].source_id \notin DOMAIN chat.titles) =>
        /\ \A n \in 1..Len(chat.results) :
               chat.results[n].source_id \notin DOMAIN chat.titles =>
                   chat.source_map[ToString(n)].title = Placeholder(chat.results[n])
        /\ chat.status = 200
        /\ chat.prompt_context = Join(<<"\n\n">>, chat.context_parts)

(***************************************************************************)
(* Claims about the stores.                                                *)
(***************************************************************************)
\* C13 as stated: an ingest of a URL the user has ingested before is answered
\* with the conflict status and leaves exactly one Source row for that user and
\* URL.
C13_DuplicateReportedAsConflict ==
    (sop.op = "ingest" /\ sop.error = "duplicate") =>
        /\ sop.status = 409
        /\ Cardinality({r \in sources : r.user_id = sop.user /\ r.url = sop.url}) = 1

\* the chunk rows a search result was made from
RowsOf(item) == {c \in chunks : c.content = item.page_content /\ c.metadata = item.metadata}

\* C14: every chunk a search of user B returns is a row of user B, also when
\* another user holds chunks of the same text.
C14_SearchReturnsOwnChunksOnly ==
    sop.op = "search" =>
        \A i \in 1..Len(sop.results) :
            /\ RowsOf(sop.results[i]) # {}
            /\ \A c \in RowsOf(sop.results[i]) : c.user_id = sop.user

\* a search found a chunk whose text another user has stored too
C14_Witness ==
    /\ sop.op = "search"
    /\ Len(sop.results) >= 1
    /\ \E c \in chunks : c.user_id # sop.user /\ c.content = sop.results[1].page_content

\* C15: a search that returns gives at most k results, in the order of the
\* backend's answer, most similar first, and with a source_id filter only
\* results of that source.
C15_AtMostKInBackendOrder ==
    (sop.op = "search" /\ sop.status = "ok") =>
        /\ Len(sop.results) <= sop.k
        /\ \A i \in 1..Len(sop.results) :
               \E j \in 1..Len(sop.data) :
                   /\ sop.results[i].page_content = sop.data[j].content
                   /\ sop.results[i].metadata = sop.data[j].metadata
                   /\ sop.results[i].similarity = sop.data[j].similarity
        /\ \A i, j \in 1..Len(sop.results) :
               i < j => sop.results[i].similarity > sop.results[j].similarity
        /\ Truthy(sop.source_id) =>
               \A i \in 1..Len(sop.results) :
                   DictGet(sop.results[i].metadata, "source_id") = sop.source_id

\* the backend answered with three rows and the source_id filter kept two
C15_Witness ==
    /\ sop.op = "search"
    /\ sop.status = "ok"
    /\ Truthy(sop.source_id)
    /\ Len(sop.data) = 3
    /\ Len(sop.results) = 2

\* C16: when delete_source has answered success, no chunk of that source is
\* counted or stored, and a search returns chunks of existing sources only.
C16_DeletedSourceHasNoChunks ==
    /\ (sop.op = "delete_source" /\ sop.status = 200) =>
           /\ GetSourceCount(chunks, GetUserVectorDb(sop.user), sop.source_id) = 0
           /\ \A c \in chunks : c.source_id # sop.source_id
    /\ sop.op = "search" =>
           \A i \in 1..Len(sop.results) :
               DictGet(sop.results[i].metadata, "source_id") \in {r.id : r \in sources}

\* a source with two chunks was deleted while another source keeps its chunks
C16_Witness ==
    /\ sop.op = "delete_source"
    /\ sop.status = 200
    /\ sop.removed = 2
    /\ chunks # {}

\* C17: a chunk carries, in its row and in its metadata, the user id of the
\* Source row its source_id names.
C17_ChunkOwnerIsSourceOwner ==
    \A c \in chunks : \A r \in sources :
        r.id = c.source_id =>
            /\ c.user_id = r.user_id
            /\ DictGet(c.metadata, "user_id") = r.user_id
            /\ DictGet(c.metadata, "source_id") = r.id

\* both users have stored chunks
C17_Witness ==
    /\ \E c \in chunks : c.user_id = "alice"
    /\ \E c \in chunks : c.user_id = "bob"
    /\ \A c \in chunks : \E r \in sources : r.id = c.source_id

ChunksOf(source_id) == {c \in chunks : c.source_id = source_id}

\* C18: the chunk_index values of a source are 0..n-1, each once, the metadata
\* carries the same index, and the chunk with index i is the i-th chunk of the
\* transcript.
C18_ChunkIndexContiguous ==
    /\ \A sid \in {c.source_id : c \in chunks} \cup {r.id : r \in sources} :
           LET n == Cardinality(ChunksOf(sid))
           IN  /\ {c.chunk_index : c \in ChunksOf(sid)} = 0..(n - 1)
               /\ \A c \in ChunksOf(sid) : DictGet(c.metadata, "chunk_index") = c.chunk_index
    /\ (sop.op = "ingest" /\ sop.error = "none") =>
           /\ Cardinality(ChunksOf(sop.source_id)) = Len(SplitText(sop.text))
           /\ \A i \in 1..Len(SplitText(sop.text)) :
                  \E c \in ChunksOf(sop.source_id) :
                      c.chunk_index = i - 1 /\ c.content = SplitText(sop.text)[i]

\* a transcript of two chunks was stored after another source had been deleted
C18_Witness ==
    /\ sop.op = "ingest"
    /\ sop.error = "none"
    /\ Cardinality(ChunksOf(sop.source_id)) = 2
    /\ srcn = 2
    /\ Cardinality(sources) = 1

\* C19 as stated: add_texts given a metadata list whose length is not the
\* number of texts raises and stores no chunk.
C19_MismatchFailsAtomically ==
    (/\ sop.op = "add_texts"
     /\ sop.metadata.given
     /\ Len(sop.metadata.list) # Len(sop.texts)) =>
        /\ sop.status = "raised"
        /\ sop.persisted = {}

(***************************************************************************)
(* Claims about podcast acquisition.                                       *)
(***************************************************************************)
\* C20: for a podcast the scrape is the first strategy; the feed path is taken
\* exactly when the scrape has not yielded a saved transcript, be it that it
\* raised, found nothing or could not save; after a scrape that yielded one
\* there is no feed resolution and no download.
C20_FeedIffScrapeYieldedNothing ==
    req.kind = "podcast" =>
        /\ stages = << >> => calls \cap {"feed", "http_download", "stt"} = {}
        /\ stages # << >> =>
               LET yielded == stages[1].outcome = "text" /\ stages[1].saved
               IN  /\ stages[1].name = "scrape"
                   /\ yielded => calls \cap {"feed", "http_download"} = {}
                   /\ ~yielded => (pc = "feed" \/ "feed" \in calls)

\* the scrape raised, the feed path ran and the download succeeded
C20_Witness ==
    /\ req.kind = "podcast"
    /\ Len(stages) = 2
    /\ stages[1].outcome = "raises"
    /\ stages[2].ok
    /\ "feed" \in calls
    /\ "http_download" \in calls


\* C21: on the feed path, a matched entry that carries a transcript link, with or
\* without an audio enclosure, has its transcript downloaded and read, and
\* speech-to-text is not invoked; speech-to-text is invoked for a podcast only
\* when the matched entry has an audio enclosure and no transcript link.
C21_TranscriptEnclosurePreferred ==
    req.kind = "podcast" =>
        /\ (info.matched # NoEntry /\ info.matched.transcript) =>
               /\ info.download_type = "transcript"
               /\ pc # "stt"
               /\ "stt" \notin calls
               /\ "http_download" \in calls => PodFile("audio") \notin created
        /\ (pc = "stt" \/ "stt" \in calls) =>
               /\ info.matched.audio
               /\ ~info.matched.transcript
               /\ info.download_type = "audio"

\* the matched entry had both enclosures and its transcript was downloaded and read
C21_Witness ==
    /\ req.kind = "podcast"
    /\ info.matched = FeedEntry(TRUE, TRUE, TRUE)
    /\ "http_download" \in calls
    /\ PodFile("transcript") \in created
    /\ transcription = <<"episode", " ", "transcript">>


\* the text `part` occurs in the text s
Contains(s, part) ==
    \E i \in 1..(Len(s) - Len(part) + 1) : SubSeq(s, i, i + Len(part) - 1) = part

\* C22 as stated: when the scrape raised and the feed path failed too, the ingest
\* ends with one error whose message carries the reason of the scrape's failure
\* and the reason of the feed path's failure.
C22_AggregatedErrorCarriesEveryReason ==
    (/\ Done("podcast")
     /\ Len(stages) = 2
     /\ stages[1].outcome = "raises"
     /\ ~stages[2].ok) =>
        /\ resp.status >= 400
        /\ Contains(resp.detail, stages[1].reason)
        /\ resp.detail # stages[1].reason


(***************************************************************************)
(* Claims about the existing-captions stage.                               *)
(***************************************************************************)
\* C23 as stated: when the video has an author-provided track and an
\* auto-generated one, in whatever languages, and the stage returns a
\* transcript, it is that of an author-provided track and it is tagged as
\* author-provided.
C23_AuthorProvidedTrackPreferred ==
    (/\ sop.op = "get_youtube_transcript"
     /\ sop.found
     /\ \E t \in sop.listing : t.kind = "manual"
     /\ \E t \in sop.listing : t.kind = "generated") =>
        /\ sop.track.kind = "manual"
        /\ sop.source = <<"youtube_manual_transcript">>

\* C24 as stated: when the video, whose id the url gives, has a caption track in
\* some language and the caption service answers, the stage returns a transcript.
C24_AnyLanguageSucceeds ==
    (/\ sop.op = "get_youtube_transcript"
     /\ ExtractYoutubeVideoId(sop.url) # None
     /\ sop.listed
     /\ sop.listing # {}
     /\ sop.fetched) =>
        /\ sop.found
        /\ sop.transcript # None


(***************************************************************************)
(* Claims about process_url.                                               *)
(***************************************************************************)
\* C25: a request that came by /process-url is of exactly one kind, decided by
\* which of the patterns its url contains: a video if it contains youtube.com or
\* youtu.be, else a podcast if it contains podcasts.apple.com, else unsupported;
\* an unsupported request has ended with the unsupported-url error and has
\* invoked no collaborator, started no strategy and written no file or row.
C25_UrlClassifiedOrRejected ==
    req.endpoint = "url" =>
        LET video == \E i \in 1..Len(req.url) :
                         req.url[i] \in {"youtube.com/watch?v=", "youtube.com/shorts/", "youtu.be/"}
            podcast == \E i \in 1..Len(req.url) :
                           req.url[i] \in {"podcasts.apple.com/", "&ref=podcasts.apple.com/"}
        IN  /\ req.kind \in {"youtube", "podcast", "unsupported"}
            /\ req.kind = "youtube" <=> video
            /\ req.kind = "podcast" <=> (~video /\ podcast)
            /\ req.kind = "unsupported" <=> (~video /\ ~podcast)
            /\ req.kind = "unsupported" =>
                   /\ pc = "done"
                   /\ resp.status = 400
                   /\ resp.detail = <<"Unsupported URL type">>
                   /\ calls = {}
                   /\ stages = << >>
                   /\ created = {}

\* a link to another site was refused after an earlier request had left a file
C25_Witness ==
    /\ req.endpoint = "url"
    /\ req.kind = "unsupported"
    /\ req.url = <<"vimeo.com/", "vid3">>
    /\ disk # {}
    /\ resp.status = 400


(***************************************************************************)
(* Claims about the model capability table.                                *)
(***************************************************************************)
\* C26: for a model name that is not one of the three of the capability table,
\* the empty string and a name in another case included, the context window
\* is the default 4096; the lookup gives a window for every name.
C26_UnknownModelGetsDefault ==
    ChatDone =>
        /\ chat.model_name \notin {"gemma3:1b", "qwen3:1.7b", "ministral-3:3b"} =>
               chat.context_window = 4096
        /\ chat.context_window \in {32000, 40000, 256000, 4096}

\* the model name was the empty string and the call returned an answer
C26_Witness ==
    /\ ChatDone
    /\ chat.model_name = ""
    /\ chat.context_window = 4096
    /\ chat.status = 200

\* C27: the number of input characters of a model is floor(total * 0.8) * 4,
\* total being the model's context window or 4096 for an unknown model: 102400
\* for a window of 32000 and 13104 for the default.
C27_MaxInputCharsExact ==
    ChatDone =>
        LET total == CASE chat.model_name = "gemma3:1b" -> 32000
                       [] chat.model_name = "qwen3:1.7b" -> 40000
                       [] chat.model_name = "ministral-3:3b" -> 256000
                       [] OTHER -> 4096
        IN  /\ chat.max_input_chars = ((total * 4) \div 5) * 4
            /\ total = 32000 => chat.max_input_chars = 102400
            /\ total = 4096 => chat.max_input_chars = 13104

\* a call with a model the table does not know: 3276.8 tokens floored to 3276
C27_Witness ==
    /\ ChatDone
    /\ chat.model_name = "llama3.2:3b"
    /\ chat.max_input_chars = 13104


(***************************************************************************)
(* Claims about concurrent requests.                                       *)
(***************************************************************************)
\* C28 as stated: while the handler of an ingest request is downloading or
\* transcribing, the server can handle a search request.
C28_OtherRequestHandledMeanwhile ==
    (pc \in DownloadStages \cup {"stt", "pod_download"} /\ sop = NoOp) =>
        ENABLED (\E uid \in Users : SearchTranscripts(uid, 5))

\* C29 as stated: an ingest request that was received while a request of another
\* user was being handled writes no file path that the other request wrote.
C29_NoSharedTempPath ==
    (req.overlap # NoOverlap /\ req.overlap.user # req.user.id) =>
        created \cap req.overlap.touched = {}


(***************************************************************************)
(* Claims about speech-to-text.                                            *)
(***************************************************************************)
\* C30: when speech-to-text has raised, the request has ended with an error
\* that carries the reason; the download that gave the audio is the last
\* strategy that was started, no Source row was inserted and no row or chunk of
\* this request exists.
C30_TranscriptionFailureIsFatal ==
    "stt_raised" \in calls =>
        /\ pc = "done"
        /\ resp.status >= 400
        /\ \E i \in 1..(Len(resp.detail) - 1) :
               /\ resp.detail[i] = "Failed to transcribe audio: "
               /\ resp.detail[i + 1] = "decode error"
        /\ req.kind = "youtube" =>
               /\ stages[Len(stages)].name \in DownloadStages
               /\ stages[Len(stages)].ok
               /\ \A i \in 1..(Len(stages) - 1) : ~stages[i].ok
        /\ "sources_insert" \notin calls
        /\ \A r \in sources : ~(r.user_id = req.user.id /\ r.url = req.url)
        /\ \A c \in chunks : DictGet(c.metadata, "url") # req.url

\* a video whose first download configuration failed and whose second gave the
\* audio that speech-to-text could not decode
C30_Witness ==
    /\ "stt_raised" \in calls
    /\ req.kind = "youtube"
    /\ Len(stages) = 3
    /\ stages[3].ok
    /\ pc = "done"


\* C31 TextSplitter.split_text and split_file never return an empty or
\* whitespace-only chunk, and what they return is the non-blank chunks of the
\* splitter in their original relative order.
C31_NonBlankIndices(cs) == {i \in 1..Len(cs) : \E j \in 1..Len(cs[i]) : cs[i][j] \notin Whitespace}

C31_NoBlankChunkOrderKept ==
    sop.op \in {"split_text", "split_file"} =>
        /\ \A i \in 1..Len(sop.returned) :
               \E j \in 1..Len(sop.returned[i]) : sop.returned[i][j] \notin Whitespace
        /\ Len(sop.returned) = Cardinality(C31_NonBlankIndices(sop.chunks))
        /\ \E f \in [1..Len(sop.returned) -> 1..Len(sop.chunks)] :
               /\ \A i, j \in 1..Len(sop.returned) : i < j => f[i] < f[j]
               /\ \A i \in 1..Len(sop.returned) : sop.returned[i] = sop.chunks[f[i]]

\* a blank chunk between two chunks of text was dropped and the two kept in order
C31_Witness ==
    /\ sop.op = "split_file"
    /\ sop.chunks = <<<<" ", "words", "\n">>, <<"\n", " ">>, <<"hello">>>>
    /\ sop.returned = <<<<" ", "words", "\n">>, <<"hello">>>>


\* C32 Whatever the order in which concurrent first uses run, the speech-to-text
\* model is loaded at most once in a process, and a call that begins after a
\* successful load uses the cached instance and does not load again.
C32_LoadedAtMostOnce ==
    sop.op = "stt" =>
        /\ sop.loads <= 1
        /\ ~sop.reloaded
        /\ \A t \in Tasks :
               /\ sop.task[t].at = "running" /\ sop.model = "loaded" => sop.task[t].seen = "loaded"
               /\ sop.task[t].last = "loaded" => sop.loads = 1
               /\ sop.task[t].seen = "loaded" /\ sop.task[t].at = "idle" => sop.task[t].last = "cached"

\* two first uses were in flight together with the model not yet loaded; one
\* loaded it, the other used the cached instance
C32_Witness ==
    /\ sop.op = "stt"
    /\ sop.variant = "lazy"
    /\ sop.concurrent_first
    /\ sop.loads = 1
    /\ \E t, u \in Tasks : sop.task[t].last = "loaded" /\ sop.task[u].last = "cached"


\* C33 as stated: a request that passed get_current_user never fails because the
\* user record lacks a field the handler reads; an ingest whose acquisition
\* produced a transcription goes on to create its Source row.
C33_UserRecordHasEveryFieldRead ==
    (pc = "done" /\ req.kind \in {"youtube", "podcast", "audio"} /\ Truthy(transcription)) =>
        /\ resp.detail # Str(KeyErrorToken)
        /\ "sources_insert" \in calls


C36_NoCitationsWithoutRetrieval ==
    (ChatDone /\ chat.searched \in {"raised", "empty"}) =>
        /\ DOMAIN chat.source_map = {}
        /\ DOMAIN chat.sources = {}

\* both cases returned an answer: the caller's context after a failed search,
\* and no context after an empty one
C36_Witness ==
    /\ ChatDone
    /\ chat.status = 200
    /\ \/ chat.searched = "raised" /\ chat.prompt = "rag" /\ chat.prompt_context = <<"short context">>
       \/ chat.searched = "empty" /\ chat.prompt = "no_context"
    /\ DOMAIN chat.sources = {}


\* C37 as stated: an HTTP error raised inside a handler's work reaches the
\* client with the status it was raised with: an exhausted audio download and a
\* transcription failure are both answered with 400.
C37_RaisedStatusReachesClient ==
    (pc = "done" /\ (Len(errs) = 4 \/ "stt_raised" \in calls)) => resp.status = 400


\* C38 as stated: delete_source issued by a user who does not own the source
\* answers 404 and leaves the Source row and all of its chunks unchanged.
C38_OnlyOwnerDeletes ==
    [][(/\ sop = NoOp
        /\ sop'.op = "delete_source"
        /\ \E r \in sources : r.id = sop'.source_id /\ r.user_id # sop'.user) =>
           /\ sop'.status = 404
           /\ sources' = sources
           /\ chunks' = chunks]_vars


\* C39 as stated: every model name that update_user_preferences accepts has its
\* own entry in the model capability table, so that the context window used
\* for a user's preferred model is that model's and not the default of an
\* unknown model.
C39_AcceptedModelsAreInTable ==
    /\ (sop.op = "update_user_preferences" /\ sop.accepted) => sop.model \in ModelContextWindowKeys
    /\ (sop.op = "chat_preferred" /\ sop.accepted) =>
           /\ sop.model \in ModelContextWindowKeys
           /\ sop.context_window = GetModelContextWindowNoDefault(sop.model)

====
